---- MODULE Spec2Model ----
(***************************************************************************)
(* fastcaster (src/src/main.rs): a sphere path tracer whose render worker  *)
(* thread hands finished frames to a winit event loop.                     *)
(*                                                                         *)
(* The module holds five state machines over one set of variables:         *)
(*   Spec / LiveSpec  main(): event loop, request channel, render worker   *)
(*   DrawSpec         draw(): the parallel per-pixel map of one render     *)
(*   RaySpec          ray_cast(): the bounce loop of one traced path       *)
(*   ScanSpec         the nearest-hit scan inside ray_cast                 *)
(*   HitSpec          hit_sphere(): root selection of the quadratic        *)
(***************************************************************************)
EXTENDS Integers, Sequences, FiniteSets, Bags

(***************************************************************************)
(* Program constants.                                                      *)
(***************************************************************************)
WIDTH == 400
HEIGHT == 300
MAX_DEPTH == 100
\* 0.001, in the unit of the fixed-point lengths of HitSpec (one thousandth).
SHADOW_ACNE_FUDGE_CONSTANT == 1

(***************************************************************************)
(* Bounds of the model.                                                    *)
(***************************************************************************)
\* Resized events the environment delivers in one run of main.
MaxResizes == 3
\* draw is checked for every width in 0..MaxDrawWidth and height in 0..MaxDrawHeight.
MaxDrawWidth == 3
MaxDrawHeight == 2
\* Seeds tried: 0..MaxSeed and 2^64 - MaxSeed .. 2^64 - 1.
MaxSeed == 1
\* hit_sphere is checked for ray origins with coordinates in -MaxCoord..MaxCoord
\* and radii in 1..MaxRadius (thousandths).
MaxCoord == 3
MaxRadius == 3
\* The nearest-hit scan is checked for scenes of 0..MaxSpheres spheres and hit
\* distances in 1..MaxScanDist above the epsilon.
MaxSpheres == 3
MaxScanDist == 3
\* Hit distances above the epsilon that ray_cast's scan is given: 1..MaxRayDist.
MaxRayDist == 2

VARIABLES
    \* ---- main(): event loop (consumer) ----
    control_flow,      \* "Poll" before NewEvents(Init), then "Wait"; "Exit" ends the process
    window_size,       \* let mut window_size
    inner_size,        \* window.inner_size(), the window's size as the OS holds it
    buffer,            \* let mut buffer: the Vec<u32> the consumer presents
    redraw_requested,  \* a window.request_redraw() not yet answered by RedrawRequested
    presented,         \* what graphics_context.set_buffer was last given
    last_user_event,   \* outcome of the last UserEvent handled: "none", "installed", "discarded"
    resizes,           \* number of Resized events delivered so far
    \* ---- channels ----
    channel,           \* mpsc channel sender -> receiver: sizes sent, not yet received
    events,            \* EventLoopProxy queue: ThreadRedrawCompleteEvent not yet handled
    \* ---- render worker thread ----
    worker_pc,         \* "recv", "draw", "send"
    draw_size,         \* let draw_size = receiver.recv().unwrap()
    draw_result,       \* the Vec<u32> draw returned, about to be sent
    received,          \* number of requests the worker has received
    \* ---- history of the two channels ----
    sent,              \* every size sent on the request channel, in order
    posted,            \* every result posted to the event loop, in order
    \* ---- draw(): one render ----
    d_pc,              \* "idle", "call", "par_extend", "return", "returned"
    d_width,           \* draw_size.width as usize
    d_height,          \* draw_size.height as usize
    d_seed,            \* let seed = rand::rngs::OsRng.gen()
    d_todo,            \* items of 0..width*height the parallel map has not yet run
    d_slots,           \* the reserved capacity of buffer that par_extend fills
    d_buffer,          \* let mut buffer: Vec<u32>, as its len() shows it
    d_last,            \* index of the pixel task that finished most recently
    d_returned,        \* the Vec<u32> handed to the caller
    \* ---- hit_sphere(ray, sphere) ----
    h_pc,              \* "idle", "call", "done"
    h_ray,             \* ray: Ray<f32>
    h_sphere,          \* sphere: Sphere
    h_result,          \* the Option<HitRecord> returned
    \* ---- the nearest-hit scan of ray_cast ----
    s_pc,              \* "idle", "call", "done"
    s_spheres,         \* world.spheres
    s_hits,            \* hit_sphere(ray, *sphere) for each sphere, in scene order
    s_min,             \* min_hit_record after the scan
    \* ---- ray_cast(ray, world, rng) ----
    r_pc,              \* "idle", "call", "loop", "done"
    r_ray,             \* mut ray
    r_background,      \* let background_color
    r_color,           \* let mut color
    r_i,               \* iterations of for _ in 0..MAX_DEPTH completed
    r_bounces,         \* scatterings so far: times ray was replaced
    r_end              \* how the loop ended: "running", "escaped", "absorbed", "exhausted"

mainVars == <<control_flow, window_size, inner_size, buffer, redraw_requested,
              presented, last_user_event, resizes, channel, events, worker_pc,
              draw_size, draw_result, received, sent, posted>>

drawVars == <<d_pc, d_width, d_height, d_seed, d_todo, d_slots, d_buffer, d_last, d_returned>>

hitVars == <<h_pc, h_ray, h_sphere, h_result>>

scanVars == <<s_pc, s_spheres, s_hits, s_min>>

rayVars == <<r_pc, r_ray, r_background, r_color, r_i, r_bounces, r_end>>

vars == <<mainVars, drawVars, hitVars, scanVars, rayVars>>

\* What a step of one of the five machines leaves alone.
notMain == <<drawVars, hitVars, scanVars, rayVars>>
notDraw == <<mainVars, hitVars, scanVars, rayVars>>
notHit == <<mainVars, drawVars, scanVars, rayVars>>
notScan == <<mainVars, drawVars, hitVars, rayVars>>
notRay == <<mainVars, drawVars, hitVars, scanVars>>

(***************************************************************************)
(* Values.                                                                 *)
(***************************************************************************)
PhysicalSize(w, h) == [width |-> w, height |-> h]

\* The sizes the window system reports in Resized events: the initial size,
\* its transpose, a smaller one, and the degenerate ones (a width of 1, a
\* height of 0, as a minimised window reports).
Sizes ==
    { PhysicalSize(WIDTH, HEIGHT), PhysicalSize(HEIGHT, WIDTH),
      PhysicalSize(200, 150), PhysicalSize(1, HEIGHT), PhysicalSize(WIDTH, 0) }

NoSize == PhysicalSize(-1, -1)
NoDraw == [size |-> NoSize, req |-> 0]

\* vec![0; n]: n zero pixels, the result of no render.
ZeroBuffer(n) == [len |-> n, draw |-> NoDraw]

\* The Vec<u32> draw(size, &world) returns for the req-th request: width*height
\* pixels (DrawSpec models how they are filled), remembered with what they
\* were rendered for.
DrawBuffer(size, req) ==
    [len |-> size.width * size.height, draw |-> [size |-> size, req |-> req]]

NoBuffer == [len |-> -1, draw |-> NoDraw]
NoPresent == [buffer |-> NoBuffer, width |-> -1, height |-> -1]

(***************************************************************************)
(* main(): state after construction, up to event_loop.run.  The window is  *)
(* built with the inner size WIDTH x HEIGHT it asks for, so the first      *)
(* request, window.inner_size(), is that size.  A Resized event is handled *)
(* as the window takes its new size, so inner_size is the size of the last *)
(* Resized event.                                                          *)
(***************************************************************************)
MainInit ==
    /\ control_flow = "Poll"
    /\ window_size = PhysicalSize(WIDTH, HEIGHT)
    /\ inner_size = PhysicalSize(WIDTH, HEIGHT)
    /\ buffer = ZeroBuffer(WIDTH * HEIGHT)
    /\ redraw_requested = FALSE
    /\ presented = NoPresent
    /\ last_user_event = "none"
    /\ resizes = 0
    \* sender.send(window.inner_size()) before the worker is spawned
    /\ channel = << PhysicalSize(WIDTH, HEIGHT) >>
    /\ sent = << PhysicalSize(WIDTH, HEIGHT) >>
    /\ events = << >>
    /\ posted = << >>
    /\ worker_pc = "recv"
    /\ draw_size = NoSize
    /\ draw_result = NoBuffer
    /\ received = 0

Running == control_flow # "Exit"

(***************************************************************************)
(* Render worker thread: loop { recv; draw; send_event }.                  *)
(***************************************************************************)
\* A faulty recv, for comparison: it takes the newest message.
RecvNewest(q) == [msg |-> q[Len(q)], rest |-> SubSeq(q, 1, Len(q) - 1)]

\* receiver.recv(): the oldest message and what stays queued.
Recv(q) == [msg |-> Head(q), rest |-> Tail(q)]

WorkerRecv ==
    /\ Running
    /\ worker_pc = "recv"
    /\ channel # << >>
    /\ draw_size' = Recv(channel).msg
    /\ channel' = Recv(channel).rest
    /\ received' = received + 1
    /\ worker_pc' = "draw"
    /\ UNCHANGED <<control_flow, window_size, inner_size, buffer, redraw_requested,
                   presented, last_user_event, resizes, events, draw_result,
                   sent, posted>>
    /\ UNCHANGED notMain

WorkerDraw ==
    /\ Running
    /\ worker_pc = "draw"
    /\ draw_result' = DrawBuffer(draw_size, received)
    /\ worker_pc' = "send"
    /\ UNCHANGED <<control_flow, window_size, inner_size, buffer, redraw_requested,
                   presented, last_user_event, resizes, channel, events, draw_size,
                   received, sent, posted>>
    /\ UNCHANGED notMain

WorkerSend ==
    /\ Running
    /\ worker_pc = "send"
    /\ events' = Append(events, draw_result)
    /\ posted' = Append(posted, draw_result)
    /\ draw_result' = NoBuffer
    /\ draw_size' = NoSize
    /\ worker_pc' = "recv"
    /\ UNCHANGED <<control_flow, window_size, inner_size, buffer, redraw_requested,
                   presented, last_user_event, resizes, channel, received, sent>>
    /\ UNCHANGED notMain

Worker == WorkerRecv \/ WorkerDraw \/ WorkerSend

(***************************************************************************)
(* Event loop handlers.                                                    *)
(***************************************************************************)
\* Event::NewEvents(StartCause::Init): the first event of the loop.
NewEventsInit ==
    /\ control_flow = "Poll"
    /\ control_flow' = "Wait"
    /\ UNCHANGED <<window_size, inner_size, buffer, redraw_requested, presented,
                   last_user_event, resizes, channel, events, worker_pc, draw_size,
                   draw_result, received, sent, posted>>
    /\ UNCHANGED notMain

\* WindowEvent::CloseRequested: ControlFlow::Exit ends the loop and the process.
CloseRequested ==
    /\ control_flow = "Wait"
    /\ control_flow' = "Exit"
    /\ UNCHANGED <<window_size, inner_size, buffer, redraw_requested, presented,
                   last_user_event, resizes, channel, events, worker_pc, draw_size,
                   draw_result, received, sent, posted>>
    /\ UNCHANGED notMain

\* WindowEvent::Resized(new_size): the window system has resized the window
\* to new_size and the handler runs.
Resized(new_size) ==
    /\ control_flow = "Wait"
    /\ resizes < MaxResizes
    /\ resizes' = resizes + 1
    /\ inner_size' = new_size
    /\ IF window_size # new_size
         THEN /\ buffer' = ZeroBuffer(new_size.width * new_size.height)
              /\ channel' = Append(channel, new_size)
              /\ sent' = Append(sent, new_size)
              /\ window_size' = new_size
         ELSE UNCHANGED <<buffer, channel, sent, window_size>>
    /\ UNCHANGED <<control_flow, redraw_requested, presented, last_user_event,
                   events, worker_pc, draw_size, draw_result, received, posted>>
    /\ UNCHANGED notMain

\* Faulty hand-off tests, for comparison: no test at all, and the test inverted.
LenAlwaysMatches(a, b) == TRUE

LenDiffers(a, b) == a.len # b.len

\* buffer.len() == new_buf.len()
LenMatches(a, b) == a.len = b.len

\* Event::UserEvent(ThreadRedrawCompleteEvent(new_buf))
UserEvent ==
    /\ control_flow = "Wait"
    /\ events # << >>
    /\ events' = Tail(events)
    /\ IF LenMatches(buffer, Head(events))
         THEN /\ buffer' = Head(events)
              /\ redraw_requested' = TRUE
              /\ last_user_event' = "installed"
         ELSE /\ UNCHANGED <<buffer, redraw_requested>>
              /\ last_user_event' = "discarded"
    /\ UNCHANGED <<control_flow, window_size, inner_size, presented, resizes,
                   channel, worker_pc, draw_size, draw_result, received, sent, posted>>
    /\ UNCHANGED notMain

\* Event::RedrawRequested: answers request_redraw, or the window system's own
\* request to repaint.
RedrawRequested ==
    /\ control_flow = "Wait"
    /\ presented' = [buffer |-> buffer, width |-> inner_size.width,
                     height |-> inner_size.height]
    /\ redraw_requested' = FALSE
    /\ UNCHANGED <<control_flow, window_size, inner_size, buffer, last_user_event,
                   resizes, channel, events, worker_pc, draw_size, draw_result,
                   received, sent, posted>>
    /\ UNCHANGED notMain


(***************************************************************************)
(* draw(draw_size, world): one render.                                     *)
(***************************************************************************)
\* A u64 near either end of its range: [top |-> FALSE, v |-> n] is n and
\* [top |-> TRUE, v |-> n] is 2^64 - n (n >= 1).
U64(top, v) == [top |-> top, v |-> v]

Seeds ==
    { U64(FALSE, v) : v \in 0..MaxSeed } \cup { U64(TRUE, v) : v \in 1..MaxSeed }

\* u64::wrapping_add(seed, i as u64), for i below 2^32.
wrapping_add(seed, i) ==
    IF seed.top
      THEN (IF i >= seed.v THEN U64(FALSE, i - seed.v) ELSE U64(TRUE, seed.v - i))
      ELSE U64(FALSE, seed.v + i)

\* The u32 the closure of the parallel map returns for pixel (x, y): what
\* sample_count ray casts from StdRng::seed_from_u64(rng_seed) through the
\* camera of a width x height image give, averaged, gamma corrected and packed.
\* StdRng is deterministic, so the value is a function of these five.
PixelBits(x, y, width, height, rng_seed) ==
    [x |-> x, y |-> y, width |-> width, height |-> height, rng |-> rng_seed]

\* The closure |i| { ... } of the parallel map.
PixelOf(i, width, height, seed) ==
    PixelBits(i % width, i \div width, width, height, wrapping_add(seed, i))

\* A faulty collection, for comparison: items land in the order they finish.
SlotInArrivalOrder(i, filled) == filled

\* par_extend of an indexed parallel iterator writes item i of the map to
\* position i of the reserved capacity, whatever the number of items that are
\* already there.
SlotOf(i, filled) == i

Empty == [x |-> -1, y |-> -1, width |-> -1, height |-> -1, rng |-> U64(FALSE, 0)]

Filled(slots) == { i \in DOMAIN slots : slots[i] # Empty }

DrawIdle ==
    /\ d_pc = "idle"
    /\ d_width = 0
    /\ d_height = 0
    /\ d_seed = U64(FALSE, 0)
    /\ d_todo = {}
    /\ d_slots = << >>
    /\ d_buffer = << >>
    /\ d_last = -1
    /\ d_returned = << >>

\* draw is entered with some draw_size.
DrawInit ==
    /\ d_pc = "call"
    /\ d_width \in 0..MaxDrawWidth
    /\ d_height \in 0..MaxDrawHeight
    /\ d_seed = U64(FALSE, 0)
    /\ d_todo = {}
    /\ d_slots = << >>
    /\ d_buffer = << >>
    /\ d_last = -1
    /\ d_returned = << >>

\* Vec::with_capacity(width * height); let seed = OsRng.gen()
DrawStart ==
    /\ d_pc = "call"
    /\ \E seed \in Seeds : d_seed' = seed
    /\ d_todo' = 0..(d_width * d_height - 1)
    /\ d_slots' = [i \in 0..(d_width * d_height - 1) |-> Empty]
    /\ d_pc' = "par_extend"
    /\ UNCHANGED <<d_width, d_height, d_buffer, d_last, d_returned>>
    /\ UNCHANGED notDraw

\* One item of (0..width * height).into_par_iter().map(..), on any thread of
\* the pool, in any order.
PixelTask(i) ==
    /\ d_pc = "par_extend"
    /\ i \in d_todo
    /\ d_todo' = d_todo \ {i}
    /\ d_slots' = [d_slots EXCEPT
                     ![SlotOf(i, Cardinality(Filled(d_slots)))] =
                        PixelOf(i, d_width, d_height, d_seed)]
    /\ d_last' = i
    /\ UNCHANGED <<d_pc, d_width, d_height, d_seed, d_buffer, d_returned>>
    /\ UNCHANGED notDraw

\* par_extend returns once every item is written: the vector's length
\* becomes width * height.
ParExtendDone ==
    /\ d_pc = "par_extend"
    /\ d_todo = {}
    /\ d_buffer' = [k \in 1..(d_width * d_height) |-> d_slots[k - 1]]
    /\ d_pc' = "return"
    /\ UNCHANGED <<d_width, d_height, d_seed, d_todo, d_slots, d_last, d_returned>>
    /\ UNCHANGED notDraw

\* buffer is returned to the worker, which posts it to the event loop.
DrawReturn ==
    /\ d_pc = "return"
    /\ d_returned' = d_buffer
    /\ d_pc' = "returned"
    /\ UNCHANGED <<d_width, d_height, d_seed, d_todo, d_slots, d_buffer, d_last>>
    /\ UNCHANGED notDraw

DrawNext ==
    \/ DrawStart
    \/ \E i \in d_todo : PixelTask(i)
    \/ ParExtendDone
    \/ DrawReturn

(***************************************************************************)
(* hit_sphere(ray, sphere).  f32 lengths are fixed-point integers counting *)
(* thousandths; sqrt and / round down to that grid.  Ray directions are    *)
(* unit vectors (whole units), as every ray draw and ray_cast build is     *)
(* normalised.                                                             *)
(***************************************************************************)
Vec3(x, y, z) == <<x, y, z>>

dot(u, v) == u[1] * v[1] + u[2] * v[2] + u[3] * v[3]

Sub(u, v) == <<u[1] - v[1], u[2] - v[2], u[3] - v[3]>>

Add(u, v) == <<u[1] + v[1], u[2] + v[2], u[3] + v[3]>>

Scale(u, k) == <<u[1] * k, u[2] * k, u[3] * k>>

\* f32::sqrt, rounded down to the grid.
sqrt(n) == CHOOSE k \in 0..(n + 1) : k * k <= n /\ n < (k + 1) * (k + 1)

\* Vec3::normalized(): the vector scaled to length 1 (1000 thousandths). The
\* zero vector has no direction (vek yields NaN components): it stays zero.
normalized(v) ==
    LET m == sqrt(dot(v, v))
    IN  IF m = 0 THEN v
        ELSE <<(v[1] * 1000) \div m, (v[2] * 1000) \div m, (v[3] * 1000) \div m>>

None == [none |-> TRUE]

Some(x) == [none |-> FALSE, value |-> x]

\* A faulty selection, for comparison: the far root is tried first.
SelectFarRootFirst(neg_distance, pos_distance) ==
    IF pos_distance > SHADOW_ACNE_FUDGE_CONSTANT THEN Some(pos_distance)
    ELSE IF neg_distance > SHADOW_ACNE_FUDGE_CONSTANT THEN Some(neg_distance)
    ELSE None

\* if neg_distance > EPS { neg } else if pos_distance > EPS { pos } else { return None }
SelectRoot(neg_distance, pos_distance) ==
    IF neg_distance > SHADOW_ACNE_FUDGE_CONSTANT THEN Some(neg_distance)
    ELSE IF pos_distance > SHADOW_ACNE_FUDGE_CONSTANT THEN Some(pos_distance)
    ELSE None

hit_sphere(ray, sphere) ==
    LET oc == Sub(ray.origin, sphere.origin)
        a == dot(ray.direction, ray.direction)
        b == 2 * dot(oc, ray.direction)
        c == dot(oc, oc) - sphere.radius * sphere.radius
        discriminant == b * b - 4 * a * c
    IN  IF discriminant > 0
          THEN LET neg_distance == (-b - sqrt(discriminant)) \div (2 * a)
                   pos_distance == (-b + sqrt(discriminant)) \div (2 * a)
                   distance == SelectRoot(neg_distance, pos_distance)
               IN  IF distance = None THEN None
                   ELSE LET intersection_point ==
                                Add(ray.origin, Scale(ray.direction, distance.value))
                        IN  Some([intersection_point |-> intersection_point,
                                  surface_normal |->
                                      normalized(Sub(intersection_point, sphere.origin)),
                                  distance |-> distance.value])
          ELSE None

Coords == (-MaxCoord)..MaxCoord

UnitDirections ==
    { Vec3(1, 0, 0), Vec3(-1, 0, 0), Vec3(0, 1, 0), Vec3(0, -1, 0),
      Vec3(0, 0, 1), Vec3(0, 0, -1) }

NoRay == [origin |-> Vec3(0, 0, 0), direction |-> Vec3(0, 0, 0)]
NoSphere == [origin |-> Vec3(0, 0, 0), radius |-> 0]

HitIdle ==
    /\ h_pc = "idle"
    /\ h_ray = NoRay
    /\ h_sphere = NoSphere
    /\ h_result = None

\* hit_sphere is entered with some ray and some sphere.
HitInit ==
    /\ h_pc = "call"
    /\ h_ray \in [origin : Coords \X Coords \X Coords, direction : UnitDirections]
    /\ h_sphere \in [origin : {Vec3(0, 0, 0), Vec3(0, 1, -1)}, radius : 1..MaxRadius]
    /\ h_result = None

HitSphere ==
    /\ h_pc = "call"
    /\ h_result' = hit_sphere(h_ray, h_sphere)
    /\ h_pc' = "done"
    /\ UNCHANGED <<h_ray, h_sphere>>
    /\ UNCHANGED notHit

(***************************************************************************)
(* The scene.  Colours are Rgb<f32> in twentieths (1.0 is 20).             *)
(***************************************************************************)
Rgb(r, g, b) == <<r, g, b>>

\* The world the render worker builds: data only.
WorkerWorld ==
    << [origin |-> "(0, 0, -1)", radius |-> "0.5",
        material |-> [color |-> Rgb(14, 6, 6), mat_type |-> "Lambertian"]],
       [origin |-> "(0, -100.5, -1)", radius |-> "100",
        material |-> [color |-> Rgb(16, 16, 6), mat_type |-> "Lambertian"]],
       [origin |-> "(-1, 0, -1)", radius |-> "0.5",
        material |-> [color |-> Rgb(16, 16, 16), mat_type |-> "Metal(0.3)"]],
       [origin |-> "(1, 0, -1)", radius |-> "0.5",
        material |-> [color |-> Rgb(16, 12, 4), mat_type |-> "Metal(1.0)"]] >>

(***************************************************************************)
(* The nearest-hit scan of ray_cast.  The geometry of a ray met in flight  *)
(* (its origin and direction after scatterings that draw on the random     *)
(* generator) is left open: hit_sphere may answer None or a hit at any     *)
(* distance above the epsilon, for each sphere independently.              *)
(***************************************************************************)
\* The HitRecord of sphere number k hit at the given distance: the point is
\* ray.origin + ray.direction * distance, the normal that of sphere k there.
HitRecord(k, distance) ==
    [intersection_point |-> <<"at", distance>>,
     surface_normal |-> <<"normal", k, distance>>,
     distance |-> distance]

\* What hit_sphere may return for each of n spheres: None, or a hit at a
\* distance of 1..maxdist above the epsilon.
HitAnswers(n, maxdist) ==
    { [k \in 1..n |-> IF dist[k] = 0 THEN None ELSE Some(HitRecord(k, dist[k]))] :
        dist \in [1..n -> 0..maxdist] }

\* A faulty update, for comparison: the earlier sphere is kept on a tie.
KeepOnTie(min_hit_record, hit_record, material) ==
    IF min_hit_record = None THEN Some(<<hit_record, material>>)
    ELSE IF min_hit_record.value[1].distance <= hit_record.distance
           THEN min_hit_record
           ELSE Some(<<hit_record, material>>)

\* min_hit_record.map(|(mhr, color)| if mhr.distance < hit_record.distance
\*     { (mhr, color) } else { (hit_record, sphere.material) })
\*   .or(Some((hit_record, sphere.material)))
Closer(min_hit_record, hit_record, material) ==
    IF min_hit_record = None THEN Some(<<hit_record, material>>)
    ELSE IF min_hit_record.value[1].distance < hit_record.distance
           THEN min_hit_record
           ELSE Some(<<hit_record, material>>)

\* for sphere in world.spheres { if let Some(hit_record) = hit_sphere(..) {..} },
\* over the first n spheres, from min_hit_record = None.
RECURSIVE Scan(_, _, _)
Scan(spheres, hits, n) ==
    IF n = 0 THEN None
    ELSE LET min_hit_record == Scan(spheres, hits, n - 1)
         IN  IF hits[n] = None THEN min_hit_record
             ELSE Closer(min_hit_record, hits[n].value, spheres[n].material)

ScanIdle ==
    /\ s_pc = "idle"
    /\ s_spheres = << >>
    /\ s_hits = << >>
    /\ s_min = None

\* The scan starts on a scene and the answers hit_sphere gives for its spheres.
ScanInit ==
    /\ s_pc = "call"
    /\ \E n \in 0..MaxSpheres :
          /\ s_spheres = SubSeq(WorkerWorld, 1, n)
          /\ s_hits \in HitAnswers(n, MaxScanDist)
    /\ s_min = None

ScanWorld ==
    /\ s_pc = "call"
    /\ s_min' = Scan(s_spheres, s_hits, Len(s_spheres))
    /\ s_pc' = "done"
    /\ UNCHANGED <<s_spheres, s_hits>>
    /\ UNCHANGED notScan

(***************************************************************************)
(* ray_cast(ray, world, rng).  A ray is known by the vertical component of *)
(* its unit direction, -1, 0 or 1; a colour is the product of the factors  *)
(* multiplied into white, kept as the bag of those factors.                *)
(***************************************************************************)
DirY == {-1, 0, 1}

Ray(y) == [direction |-> [y |-> y]]

\* Rgb::broadcast(1.0)
White == EmptyBag

\* color *= factor
Mul(color, factor) == color (+) SetToBag({factor})

\* let t = 1.0 - 0.5 * (ray.direction.y + 1.0);
\* Lerp::lerp(Rgb::broadcast(1.0), Rgb::new(0.5, 0.7, 1.0), 1.0 - t)
BackgroundColor(ray) ==
    LET from == Rgb(20, 20, 20)
        to == Rgb(10, 14, 20)
        twice_factor == ray.direction.y + 1
    IN  [k \in 1..3 |-> from[k] + ((to[k] - from[k]) * twice_factor) \div 2]

\* The world ray_cast is run on: a diffuse and a metal sphere of the worker's.
RayWorld == << WorkerWorld[1], WorkerWorld[3] >>

\* A faulty range, for comparison: 0..=MAX_DEPTH.
InRangeInclusive(i) == i <= MAX_DEPTH

\* for _ in 0..MAX_DEPTH: whether iteration number i (from 0) runs.
InRange(i) == i < MAX_DEPTH

RayIdle ==
    /\ r_pc = "idle"
    /\ r_ray = Ray(0)
    /\ r_background = Rgb(0, 0, 0)
    /\ r_color = White
    /\ r_i = 0
    /\ r_bounces = 0
    /\ r_end = "running"

\* ray_cast is entered with some primary ray.
RayInit ==
    /\ r_pc = "call"
    /\ r_ray \in { Ray(y) : y \in DirY }
    /\ r_background = Rgb(0, 0, 0)
    /\ r_color = White
    /\ r_i = 0
    /\ r_bounces = 0
    /\ r_end = "running"

\* The statements before the loop.
RayCastEnter ==
    /\ r_pc = "call"
    /\ r_background' = BackgroundColor(r_ray)
    /\ r_color' = White
    /\ r_pc' = "loop"
    /\ UNCHANGED <<r_ray, r_i, r_bounces, r_end>>
    /\ UNCHANGED notRay

\* One iteration of the loop: the scan, then the hit or the miss branch.
RayCastIteration ==
    /\ r_pc = "loop"
    /\ InRange(r_i)
    /\ \E hits \in HitAnswers(Len(RayWorld), MaxRayDist) :
         LET min_hit_record == Scan(RayWorld, hits, Len(RayWorld))
         IN  IF min_hit_record # None
               THEN LET hit_material == min_hit_record.value[2]
                        attenuated == Mul(r_color, hit_material.color)
                    IN  \/ \* Lambertian, or Metal with reflected.dot(normal) > 0:
                           \* the scattered ray, its direction set by the random draw
                           /\ \E y \in DirY : r_ray' = Ray(y)
                           /\ r_color' = attenuated
                           /\ r_bounces' = r_bounces + 1
                           /\ r_i' = r_i + 1
                           /\ UNCHANGED <<r_pc, r_end>>
                        \/ \* Metal with reflected.dot(normal) <= 0
                           /\ hit_material.mat_type # "Lambertian"
                           /\ r_color' = Mul(attenuated, Rgb(0, 0, 0))
                           /\ r_end' = "absorbed"
                           /\ r_pc' = "done"
                           /\ UNCHANGED <<r_ray, r_bounces, r_i>>
               ELSE /\ r_color' = Mul(r_color, r_background)
                    /\ r_end' = "escaped"
                    /\ r_pc' = "done"
                    /\ UNCHANGED <<r_ray, r_bounces, r_i>>
    /\ UNCHANGED r_background
    /\ UNCHANGED notRay

\* The range is exhausted: the function returns color.
RayCastExhausted ==
    /\ r_pc = "loop"
    /\ ~InRange(r_i)
    /\ r_end' = "exhausted"
    /\ r_pc' = "done"
    /\ UNCHANGED <<r_ray, r_background, r_color, r_i, r_bounces>>
    /\ UNCHANGED notRay

RayNext ==
    \/ RayCastEnter
    \/ RayCastIteration
    \/ RayCastExhausted

(***************************************************************************)
(* main().                                                                 *)
(***************************************************************************)
Init == MainInit /\ DrawIdle /\ HitIdle /\ ScanIdle /\ RayIdle

Next ==
    \/ Worker
    \/ NewEventsInit
    \/ CloseRequested
    \/ \E new_size \in Sizes : Resized(new_size)
    \/ UserEvent
    \/ RedrawRequested


Spec == Init /\ [][Next]_vars

(***************************************************************************)
(* The functions on their own: each starts from a call with inputs drawn   *)
(* from bounded sets.                                                      *)
(***************************************************************************)
DrawSpecInit == MainInit /\ DrawInit /\ HitIdle /\ ScanIdle /\ RayIdle

DrawSpec == DrawSpecInit /\ [][DrawNext]_vars

HitSpecInit == MainInit /\ DrawIdle /\ HitInit /\ ScanIdle /\ RayIdle

HitNext == HitSphere

HitSpec == HitSpecInit /\ [][HitNext]_vars

ScanSpecInit == MainInit /\ DrawIdle /\ HitIdle /\ ScanInit /\ RayIdle

ScanNext == ScanWorld

ScanSpec == ScanSpecInit /\ [][ScanNext]_vars

RaySpecInit == MainInit /\ DrawIdle /\ HitIdle /\ ScanIdle /\ RayInit

RaySpec == RaySpecInit /\ [][RayNext]_vars

(***************************************************************************)
(* LiveSpec: the operating system schedules the worker thread, and the     *)
(* event loop handles every event that is queued; whether the user resizes *)
(* or closes the window is left open.                                      *)
(***************************************************************************)
LiveSpec ==
    /\ Spec
    /\ WF_vars(Worker)
    /\ WF_vars(NewEventsInit)
    /\ WF_vars(UserEvent)
    /\ WF_vars(RedrawRequested)

(***************************************************************************)
(* Claims about main().                                                    *)
(***************************************************************************)

\* C1: handling a render-complete event whose buffer length differs from the
\* length of the consumer's buffer leaves the buffer, the recorded window
\* size, the pending-redraw flag and the control flow as they were; with
\* equal lengths the event's buffer becomes the consumer's buffer.
C1_MismatchDiscarded ==
    [][ Len(events') < Len(events) =>
          IF Head(events).len # buffer.len
            THEN /\ buffer' = buffer
                 /\ window_size' = window_size
                 /\ redraw_requested' = redraw_requested
                 /\ control_flow' = control_flow
            ELSE buffer' = Head(events) ]_vars

\* A result was discarded: the consumer's buffer is still the zero buffer of
\* the resize that made the result stale.
C1_Witness ==
    /\ last_user_event = "discarded"
    /\ buffer.draw = NoDraw
    /\ Len(posted) >= 1
    /\ posted[1].len # buffer.len

\* C2: a buffer rendered for a size other than the consumer's current window
\* size is never the consumer's buffer.
C2_NoStaleInstall ==
    buffer.draw # NoDraw => buffer.draw.size = window_size

\* C3: results are posted in the order of the requests, one per request, and
\* at most one request is between recv and send_event: none when the worker
\* waits in recv, exactly one otherwise.
C3_OneInFlightInOrder ==
    /\ Len(posted) <= Len(sent)
    /\ \A k \in 1..Len(posted) :
          /\ posted[k].draw.size = sent[k]
          /\ posted[k].draw.req = k
    /\ Len(sent) - Len(channel) - Len(posted)
          = (IF worker_pc = "recv" THEN 0 ELSE 1)

\* Two results posted, a third render running, a fourth request queued.
C3_Witness ==
    /\ Len(posted) >= 2
    /\ worker_pc = "draw"
    /\ Len(channel) >= 1

\* C5: every size passed to draw has width >= 2 and height >= 2.
C5_NoDegenerateDraw ==
    worker_pc = "draw" => (draw_size.width >= 2 /\ draw_size.height >= 2)

\* Every request served and delivered, and the consumer's buffer is the
\* render of the last request, made for the current window size, and shown.
Converged ==
    /\ Len(posted) = Len(sent)
    /\ events = << >>
    /\ buffer.draw.req = Len(sent)
    /\ buffer.draw.size = window_size
    /\ presented.buffer = buffer

\* The results posted so far are the renders of the first requests sent, in
\* the order sent.
PostedInOrder ==
    /\ Len(posted) <= Len(sent)
    /\ \A k \in 1..Len(posted) : posted[k] = DrawBuffer(sent[k], k)

\* C10 as stated: in every fair run results are posted in the order of the
\* requests, the requests are all served, and the display settles on the
\* render for the current window size.
C10_AlwaysConverges == []PostedInOrder /\ <>[]Converged

\* C10: in every fair run results are posted in the order of the requests,
\* and, unless the window is closed, the requests are all served and the
\* display settles on the render for the current window size.
C10_ConvergesUnlessClosed ==
    []PostedInOrder /\ (<>(control_flow = "Exit") \/ <>[]Converged)

\* The display has settled after the window was resized (twice at least).
C10_Witness ==
    /\ Converged
    /\ Len(sent) >= 3
    /\ control_flow = "Wait"

(***************************************************************************)
(* Claims about draw().                                                    *)
(***************************************************************************)

\* C4: whatever the order in which the pixel tasks ran, the vector draw
\* returns has width*height elements, and element i (from 0) is the pixel
\* computed for x = i mod width, y = i div width from the generator seeded
\* with seed + i modulo 2^64; until par_extend has finished nothing is
\* returned and the vector shows no element.
C4_DrawDeterministic ==
    /\ d_pc = "returned" =>
          /\ Len(d_returned) = d_width * d_height
          /\ \A i \in 0..(d_width * d_height - 1) :
                /\ d_returned[i + 1].x = i % d_width
                /\ d_returned[i + 1].y = i \div d_width
                /\ d_returned[i + 1].width = d_width
                /\ d_returned[i + 1].height = d_height
                /\ d_returned[i + 1].rng =
                      (IF d_seed.top /\ d_seed.v > i
                         THEN U64(TRUE, d_seed.v - i)
                         ELSE IF d_seed.top THEN U64(FALSE, i - d_seed.v)
                         ELSE U64(FALSE, d_seed.v + i))
    /\ d_pc # "returned" => d_returned = << >>
    /\ d_pc \in {"call", "par_extend"} => d_buffer = << >>

\* A render of the largest image returned although pixel 0 was computed
\* last, with a seed that wraps.
C4_Witness ==
    /\ d_pc = "returned"
    /\ d_width = MaxDrawWidth
    /\ d_height = MaxDrawHeight
    /\ d_last = 0
    /\ d_seed = U64(TRUE, 1)

(***************************************************************************)
(* Claims about hit_sphere, the scan and ray_cast.                         *)
(***************************************************************************)
\* The two roots as hit_sphere computes them for h_ray and h_sphere.
h_b == 2 * dot(Sub(h_ray.origin, h_sphere.origin), h_ray.direction)
h_a == dot(h_ray.direction, h_ray.direction)
h_discriminant ==
    h_b * h_b - 4 * h_a * (dot(Sub(h_ray.origin, h_sphere.origin),
                               Sub(h_ray.origin, h_sphere.origin))
                           - h_sphere.radius * h_sphere.radius)
h_roots ==
    { (-h_b - sqrt(h_discriminant)) \div (2 * h_a),
      (-h_b + sqrt(h_discriminant)) \div (2 * h_a) }

\* C8: hit_sphere returns None exactly when the discriminant is <= 0 or no
\* root exceeds the epsilon; otherwise the distance returned is a root above
\* the epsilon and no root above the epsilon is smaller.
C8_SmallestRootAboveEpsilon ==
    h_pc = "done" =>
       IF h_discriminant <= 0
            \/ \A t \in h_roots : t <= SHADOW_ACNE_FUDGE_CONSTANT
         THEN h_result = None
         ELSE /\ h_result # None
              /\ h_result.value.distance \in h_roots
              /\ h_result.value.distance > SHADOW_ACNE_FUDGE_CONSTANT
              /\ \A t \in h_roots :
                    t > SHADOW_ACNE_FUDGE_CONSTANT => h_result.value.distance <= t

\* A ray from outside the sphere: both roots exceed the epsilon, they differ,
\* and a hit is returned.
C8_Witness ==
    /\ h_pc = "done"
    /\ h_result # None
    /\ h_discriminant > 0
    /\ Cardinality(h_roots) = 2
    /\ \A t \in h_roots : t > SHADOW_ACNE_FUDGE_CONSTANT

\* The spheres of the scanned scene that are hit, and the nearest distance.
s_hit == { k \in 1..Len(s_hits) : s_hits[k] # None }
s_nearest == { k \in s_hit : \A j \in s_hit : s_hits[k].value.distance <= s_hits[j].value.distance }
s_selected(k) == s_min = Some(<<s_hits[k].value, s_spheres[k].material>>)

\* C7 as stated: the scan selects a sphere of minimum hit distance, the first
\* in scene order among those at that distance (None when nothing is hit).
C7_FirstNearestWins ==
    s_pc = "done" =>
       IF s_hit = {} THEN s_min = None
       ELSE \E k \in s_nearest :
               /\ \A j \in s_nearest : k <= j
               /\ s_selected(k)

\* C7: the scan selects a sphere of minimum hit distance, the last in scene
\* order among those at that distance (None when nothing is hit).
C7_LastNearestWins ==
    s_pc = "done" =>
       IF s_hit = {} THEN s_min = None
       ELSE \E k \in s_nearest :
               /\ \A j \in s_nearest : k >= j
               /\ s_selected(k)

\* A scan over a scene in which two spheres tie for the nearest hit and a
\* third is hit farther away.
C7_Witness ==
    /\ s_pc = "done"
    /\ Cardinality(s_nearest) = 2
    /\ Cardinality(s_hit) = 3
    /\ s_min # None

\* The factors of r_color that are colours of materials of the world.
r_attenuations ==
    { f \in BagToSet(r_color) : \E k \in 1..Len(RayWorld) : f = RayWorld[k].material.color }

\* C6: the loop never runs more than MAX_DEPTH iterations; it is left at the
\* iteration where the ray escapes or is absorbed; and when every iteration
\* hits and scatters, ray_cast makes exactly MAX_DEPTH bounces and returns
\* the product of the MAX_DEPTH attenuations alone: no sky colour, no black.
C6_BoundedBounces ==
    /\ r_i <= MAX_DEPTH
    /\ r_bounces <= MAX_DEPTH
    /\ r_pc = "loop" => (r_end = "running" /\ r_bounces = r_i)
    /\ r_end \in {"escaped", "absorbed", "exhausted"} => r_pc = "done"
    /\ (r_pc = "done" /\ r_end = "exhausted") =>
          /\ r_bounces = MAX_DEPTH
          /\ BagCardinality(r_color) = MAX_DEPTH
          /\ BagToSet(r_color) = r_attenuations

\* A path that hit and scattered at every iteration has returned.
C6_Witness ==
    /\ r_pc = "done"
    /\ r_end = "exhausted"
    /\ r_bounces = MAX_DEPTH

\* C9: when the path escapes, the colour returned is the product of the
\* attenuations of its bounces and the sky gradient for the vertical
\* direction component of the ray that escaped.
C9_SkyOfEscapedRay ==
    (r_pc = "done" /\ r_end = "escaped") =>
       /\ BagCardinality(r_color) = r_bounces + 1
       /\ BagIn(BackgroundColor(r_ray), r_color)

====
